---- MODULE Spec2Model ----
(***************************************************************************)
(* Model of the R&D-map AI search: the offline corpus pipeline             *)
(* (scripts/prepare_data.py, scripts/build_index.py) and the serving       *)
(* pipeline (fastapi_server/main.py).                                      *)
(*                                                                         *)
(* Vectors.  An embedding is a record [d, x, y]: d is its dimension (the   *)
(* length of the float array), and <<x, y>> are its coordinates in the     *)
(* plane spanned by the corpus, in units of 1/Scale.  All raw embeddings   *)
(* have an integer length that divides Scale times each coordinate, so     *)
(* L2 normalisation and the inner product are exact in integers: a unit    *)
(* vector has x*x + y*y = Scale*Scale and a score of Scale*Scale is a      *)
(* cosine of 1.0.                                                          *)
(***************************************************************************)
EXTENDS Integers, Sequences, FiniteSets, TLC

VARIABLES
    \* ---- environment -------------------------------------------------
    OPENROUTER_API_KEY,  \* TRUE when the key is set in the environment
    EMBEDDINGS_MODEL,    \* serving side: the sentence-transformers model
    EMBEDDING_MODEL,     \* build side: the OpenRouter embedding model
    centers,             \* the centre files prepare_data scans
    disk,                \* path -> file: [present, data]
    \* ---- build_index.py main() ---------------------------------------
    phase,               \* position of the offline pipeline
    texts, ids,          \* lists read from projects_search_text.jsonl
    all_embeddings,      \* vectors accumulated by the batch loop
    i,                   \* offset of the current batch (0-based)
    j,                   \* fallback position in the batch, 0 = no fallback
    \* ---- fastapi_server/main.py globals ------------------------------
    started,             \* "no", "up", or "failed" (startup raised)
    embed_model, faiss_index, metadata, openai_client,
    warnings,            \* warnings logged by startup_event
    resp,                \* outcome of the last /ai-search request
    inflight,            \* the request blocked in the chat-completion call
    waited,              \* time units that call has taken so far
    reranked             \* arguments and value of the last rerank_results call

envVars   == <<OPENROUTER_API_KEY, EMBEDDINGS_MODEL, EMBEDDING_MODEL, centers>>
buildVars == <<phase, texts, ids, all_embeddings, i, j>>
serveVars == <<started, embed_model, faiss_index, metadata, openai_client,
               warnings, resp, inflight, waited, reranked>>
vars      == <<envVars, disk, buildVars, serveVars>>

----------------------------------------------------------------------------
(* Bounds of the model *)

\* number of centre files scanned by prepare_data
MaxFiles == 2
\* largest top_k_candidates / top_k_results a request carries
MaxK == 4
\* longest time a chat-completion call is followed for
MaxWait == 2
\* longest candidate list rerank_results is called with
MaxCandidates == 3
\* batch size of the index builder; the code's 100 scaled to the corpus bound
BATCH_SIZE == 2

----------------------------------------------------------------------------
(* Program constants *)

\* length of the zero-vector placeholder
PlaceholderDim == 1536
\* dimension of paraphrase-multilingual-MiniLM-L12-v2, the serving default
MiniLMDim == 384
\* a unit vector has length Scale
Scale == 5

None == "None"

\* a file that exists, and the absence of a file of each kind
File(data) == [present |-> TRUE, data |-> data]
\* the value of faiss_index while no index is loaded (Python's None)
NoIndex    == [d |-> 0, vecs |-> <<>>]
NoIndexFile == [present |-> FALSE, data |-> NoIndex]
NoLinesFile == [present |-> FALSE, data |-> <<>>]

INPUT_FILE         == "projects_search_text.jsonl"
OUTPUT_INDEX       == "faiss.index"
OUTPUT_METADATA    == "projects_metadata.jsonl"
OUTPUT_SEARCH_TEXT == "projects_search_text.jsonl"

index_paths == <<"faiss.index", "scripts/faiss.index", "../faiss.index">>
meta_paths  == <<"projects_metadata.jsonl", "scripts/projects_metadata.jsonl",
                 "../projects_metadata.jsonl">>

Paths == {index_paths[k] : k \in 1..3} \cup {meta_paths[k] : k \in 1..3}
            \cup {INPUT_FILE}

\* the models each side may be configured with: its default, and one model
\* of the other side's dimension
BuildModels == {"openai/text-embedding-3-small", "openai/text-embedding-3-large-384"}
ServeModels == {"sentence-transformers/paraphrase-multilingual-MiniLM-L12-v2",
                "sentence-transformers/custom-1536"}

\* dimension of the vectors a model returns
ModelDim(model) ==
    IF model \in {"openai/text-embedding-3-small", "sentence-transformers/custom-1536"}
    THEN PlaceholderDim ELSE MiniLMDim

----------------------------------------------------------------------------
(* Helpers *)

Min(a, b) == IF a < b THEN a ELSE b
Max(a, b) == IF a > b THEN a ELSE b

RECURSIVE ISqrtFrom(_, _)
ISqrtFrom(n, r) == IF (r + 1) * (r + 1) > n THEN r ELSE ISqrtFrom(n, r + 1)
\* integer square root
ISqrt(n) == ISqrtFrom(n, 0)

\* Python's seq[:k]
PySlice(seq, k) ==
    IF k >= 0 THEN SubSeq(seq, 1, Min(k, Len(seq)))
    ELSE SubSeq(seq, 1, Max(Len(seq) + k, 0))

RECURSIVE SeqsUpTo(_, _)
\* all sequences over S of length at most n
SeqsUpTo(S, n) ==
    IF n = 0 THEN {<<>>}
    ELSE LET shorter == SeqsUpTo(S, n - 1)
         IN  shorter \cup {Append(s, e) : s \in {t \in shorter : Len(t) = n - 1}, e \in S}

----------------------------------------------------------------------------
(* Embedding provider and normalisation *)

\* the raw (un-normalised) coordinates a healthy embedding model returns
EmbedRaw(text) ==
    CASE text = "t1" -> <<6, 8>>
      [] text = "t2" -> <<8, 6>>
      [] text = "t3" -> <<0, 10>>
      [] text = "qa" -> <<10, 0>>
      [] text = "qb" -> <<0, 10>>
      [] OTHER       -> <<3, 4>>

Embedding(model, text) ==
    [d |-> ModelDim(model), x |-> EmbedRaw(text)[1], y |-> EmbedRaw(text)[2]]

\* [0.0] * 1536
ZeroPlaceholder == [d |-> PlaceholderDim, x |-> 0, y |-> 0]

\* the rows added as the provider returned them
normalize_L2_Skipped(v) == v

\* faiss.normalize_L2 on one row: a row of norm 0 is left as it is
normalize_L2(v) ==
    LET n == ISqrt(v.x * v.x + v.y * v.y)
    IN  IF n = 0 THEN v
        ELSE [d |-> v.d, x |-> (Scale * v.x) \div n, y |-> (Scale * v.y) \div n]

InnerProduct(a, b) == a.x * b.x + a.y * b.y

----------------------------------------------------------------------------
(* JSON lines *)

\* json.dumps(obj) + "\n"
Dumps(obj) == [kind |-> "json", obj |-> obj]
\* a line json.loads raises on
Garbage == [kind |-> "garbage", obj |-> [raw |-> "not json"]]
Parsable(line) == line.kind = "json"
\* json.loads(line), for a parsable line
Loads(line) == line.obj

----------------------------------------------------------------------------
(* scripts/prepare_data.py *)

\* a project of a centre file; flaw names what makes the script raise on it:
\*   "name"   the name is not a string: re.sub raises, first at line 43
\*   "join"   the keywords are not strings: ", ".join raises at line 56
\*   "encode" a keyword holds a lone surrogate (JSON "\ud83d"): the utf-8
\*            write of the search-text line raises at line 70
Project(reg, text, flaw) == [registration_number |-> reg, name |-> text, flaw |-> flaw]

Center(ogrn, projects) == [ok |-> TRUE, ogrn |-> ogrn, projects |-> projects]
\* a centre file json.load raises on
BrokenCenter == [ok |-> FALSE, ogrn |-> "", projects |-> <<>>]

CenterFiles ==
    { Center("c1", <<Project("P1", "t1", "none"), Project("P2", "t2", "none")>>),
      Center("c2", <<Project("P3", "t3", "none")>>),
      Center("c3", <<Project("", "t1", "none"), Project("P3", "t3", "none")>>),
      Center("c4", <<Project("P1", "t1", "none"), Project("P2", "t2", "join"),
                     Project("P3", "t3", "none")>>),
      Center("c5", <<Project("P2", "t2", "none"), Project("P3", "t3", "name")>>),
      Center("c6", <<Project("P1", "t1", "none"), Project("P2", "t2", "encode"),
                     Project("P3", "t3", "none")>>),
      BrokenCenter }

\* the metadata record of lines 61-67
MetadataOf(center, proj) ==
    [project_id  |-> proj.registration_number,
     center_id   |-> center.ogrn,
     center_name |-> center.ogrn,
     title       |-> proj.name,
     year        |-> "2025"]

\* the search-text record of lines 70-73
SearchTextOf(proj) ==
    [project_id |-> proj.registration_number, search_text |-> proj.name]

\* what an operation has written to the two output files so far
NoLines == [meta |-> <<>>, text |-> <<>>]

\* line 69: the metadata line
WriteMetadata(written, center, proj) ==
    [written EXCEPT !.meta = Append(@, Dumps(MetadataOf(center, proj)))]

\* lines 70-73: the search-text line
WriteSearchText(written, proj) ==
    [written EXCEPT !.text = Append(@, Dumps(SearchTextOf(proj)))]

RECURSIVE ProjectLoop(_, _, _)
\* the loop of lines 47-75 from project k on, until it ends or a project
\* raises: at line 56 before both writes, or at line 70 between them
ProjectLoop(center, k, written) ==
    IF k > Len(center.projects) THEN written
    ELSE LET proj == center.projects[k]
         IN  IF proj.registration_number = ""
             THEN ProjectLoop(center, k + 1, written)
             ELSE IF proj.flaw = "join"
             THEN written
             ELSE IF proj.flaw = "encode"
             THEN WriteMetadata(written, center, proj)
             ELSE ProjectLoop(center, k + 1,
                      WriteSearchText(WriteMetadata(written, center, proj), proj))

\* the body of the try block of lines 31-75 for one centre file; what was
\* written before an exception stays written
CenterLines(center, written) ==
    IF ~center.ok THEN written
    ELSE IF \E k \in 1..Len(center.projects) : center.projects[k].flaw = "name"
    THEN written
    ELSE ProjectLoop(center, 1, written)

RECURSIVE FilesLoop(_, _)
\* the loop of lines 30-78 over the centre files
FilesLoop(files, written) ==
    IF files = <<>> THEN written
    ELSE FilesLoop(Tail(files), CenterLines(Head(files), written))

\* prepare_data.py main(): rewrites both output files
PrepareData ==
    /\ phase = "start"
    /\ LET written == FilesLoop(centers, NoLines)
       IN  disk' = [disk EXCEPT ![OUTPUT_METADATA]    = File(written.meta),
                                ![OUTPUT_SEARCH_TEXT] = File(written.text)]
    /\ phase' = "prepared"
    /\ UNCHANGED <<envVars, texts, ids, all_embeddings, i, j, serveVars>>

----------------------------------------------------------------------------
(* scripts/build_index.py *)

\* lines 29-50: the key check and the read of the search-text file
LoadData ==
    /\ phase = "prepared"
    /\ IF ~OPENROUTER_API_KEY
       THEN /\ phase' = "nokey"
            /\ UNCHANGED <<texts, ids>>
       ELSE LET lines == disk[INPUT_FILE].data
            IN  /\ texts' = [k \in 1..Len(lines) |-> Loads(lines[k]).search_text]
                /\ ids'   = [k \in 1..Len(lines) |-> Loads(lines[k]).project_id]
                /\ phase' = "encoding"
    /\ UNCHANGED <<envVars, disk, all_embeddings, i, j, serveVars>>

\* texts[i:i + BATCH_SIZE]
Batch == SubSeq(texts, i + 1, Min(i + BATCH_SIZE, Len(texts)))

\* the response of client.embeddings.create for a list of inputs
BatchEmbeddings(batch) ==
    [k \in 1..Len(batch) |-> Embedding(EMBEDDING_MODEL, batch[k])]

\* lines 62-72: the batch call succeeds
BatchOk ==
    /\ phase = "encoding" /\ j = 0 /\ i < Len(texts)
    /\ all_embeddings' = all_embeddings \o BatchEmbeddings(Batch)
    /\ i' = i + BATCH_SIZE
    /\ UNCHANGED <<envVars, disk, phase, texts, ids, j, serveVars>>

\* lines 62-66, 73-75: the batch call raises; the fallback loop starts
BatchFails ==
    /\ phase = "encoding" /\ j = 0 /\ i < Len(texts)
    /\ j' = 1
    /\ UNCHANGED <<envVars, disk, phase, texts, ids, all_embeddings, i, serveVars>>

\* what the except branch of line 83 leaves in the list
AfterItemFailure_Dropped(embeddings) == embeddings

AfterItemFailure(embeddings) == Append(embeddings, ZeroPlaceholder)

\* lines 76-86: one item of the failed batch
FallbackItem(ok) ==
    /\ phase = "encoding" /\ j > 0
    /\ all_embeddings' =
           IF ok THEN Append(all_embeddings, Embedding(EMBEDDING_MODEL, Batch[j]))
           ELSE AfterItemFailure(all_embeddings)
    /\ IF j < Len(Batch)
       THEN j' = j + 1 /\ i' = i
       ELSE j' = 0 /\ i' = i + BATCH_SIZE
    /\ UNCHANGED <<envVars, disk, phase, texts, ids, serveVars>>

\* np.array(all_embeddings, dtype="float32") needs rows of one length
Rectangular(rows) == \A a, b \in 1..Len(rows) : rows[a].d = rows[b].d

\* lines 96-99: normalise the rows and add them to an IndexFlatIP
BuildIndex(rows) ==
    [d |-> rows[1].d, vecs |-> [k \in 1..Len(rows) |-> normalize_L2(rows[k])]]

\* lines 88-105: array, index and write; np.array raises on ragged rows and
\* embeddings.shape[1] raises on an empty corpus
FinishBuild ==
    /\ phase = "encoding" /\ j = 0 /\ i >= Len(texts)
    /\ IF all_embeddings # <<>> /\ Rectangular(all_embeddings)
       THEN /\ disk' = [disk EXCEPT ![OUTPUT_INDEX] = File(BuildIndex(all_embeddings))]
            /\ phase' = "built"
       ELSE /\ phase' = "crashed"
            /\ UNCHANGED disk
    /\ UNCHANGED <<envVars, texts, ids, all_embeddings, i, j, serveVars>>

\* placeholders of the response record while nothing was received or called
NoRequest ==
    [query |-> "", top_k_candidates |-> 0, top_k_results |-> 0,
     use_rerank |-> FALSE, use_rewrite |-> FALSE]
NotCalled == [ok |-> FALSE, content |-> "not called"]

\* no vector has been searched for
NoVector == [d |-> 0, x |-> 0, y |-> 0]

NoResp ==
    [status |-> "none", req |-> NoRequest, outcome |-> NotCalled, error |-> None,
     embedded |-> None, searched |-> NoVector, rewritten_query |-> None,
     timings |-> {}, results |-> <<>>, calls |-> <<>>]

EmptyDisk ==
    [p \in Paths |-> IF p \in {index_paths[k] : k \in 1..3}
                     THEN NoIndexFile ELSE NoLinesFile]

\* rerank_results has not been called
NoRerank ==
    [called |-> FALSE, query |-> "", candidates |-> <<>>, top_k |-> 0,
     result |-> <<>>]

\* no request is inside rewrite_query
NoCall == [waiting |-> FALSE, req |-> NoRequest]

ServeIdle ==
    /\ started = "no" /\ embed_model = None /\ faiss_index = NoIndex
    /\ metadata = <<>> /\ openai_client = None /\ warnings = {} /\ resp = NoResp
    /\ inflight = NoCall /\ waited = 0 /\ reranked = NoRerank

BuildIdle ==
    /\ phase = "start" /\ texts = <<>> /\ ids = <<>> /\ all_embeddings = <<>>
    /\ i = 0 /\ j = 0

\* the offline pipeline on an empty working directory
InitBuild ==
    /\ OPENROUTER_API_KEY \in BOOLEAN
    /\ EMBEDDINGS_MODEL \in ServeModels
    /\ EMBEDDING_MODEL \in BuildModels
    /\ centers \in SeqsUpTo(CenterFiles, MaxFiles)
    /\ disk = EmptyDisk
    /\ BuildIdle
    /\ ServeIdle

NextBuild ==
    \/ PrepareData
    \/ LoadData
    \/ BatchOk
    \/ BatchFails
    \/ \E ok \in BOOLEAN : FallbackItem(ok)
    \/ FinishBuild

SpecBuild == InitBuild /\ [][NextBuild]_vars

----------------------------------------------------------------------------
(* fastapi_server/main.py: startup_event *)

\* position in paths of the first path that exists, 0 when none does
FirstExisting(paths) ==
    IF \E k \in 1..Len(paths) : disk[paths[k]].present
    THEN CHOOSE k \in 1..Len(paths) :
            /\ disk[paths[k]].present
            /\ \A m \in 1..(k - 1) : ~disk[paths[m]].present
    ELSE 0

\* line 91: [json.loads(line) for line in f], for a file of parsable lines
LoadMetadata(lines) == [k \in 1..Len(lines) |-> Loads(lines[k])]

\* startup_event as a whole; a raise leaves the globals assigned so far and
\* the application does not start
startup_event ==
    /\ started = "no"
    /\ embed_model' = EMBEDDINGS_MODEL
    /\ LET ip == FirstExisting(index_paths)
           mp == FirstExisting(meta_paths)
           index == IF ip = 0 THEN NoIndex ELSE disk[index_paths[ip]].data
           lines == IF mp = 0 THEN <<>> ELSE disk[meta_paths[mp]].data
           w1 == IF index = NoIndex THEN {"FAISS index not found"} ELSE {}
       IN  /\ faiss_index' = index
           /\ IF \E k \in 1..Len(lines) : ~Parsable(lines[k])
              THEN /\ started' = "failed"
                   /\ warnings' = w1
                   /\ UNCHANGED <<metadata, openai_client>>
              ELSE /\ metadata' = LoadMetadata(lines)
                   /\ warnings' = w1
                        \cup (IF mp = 0 THEN {"Metadata not found"} ELSE {})
                        \cup (IF OPENROUTER_API_KEY THEN {} ELSE {"OPENROUTER_API_KEY missing"})
                   /\ openai_client' = IF OPENROUTER_API_KEY THEN "client" ELSE None
                   /\ started' = "up"
    /\ UNCHANGED <<envVars, disk, buildVars, reranked, resp, inflight, waited>>

----------------------------------------------------------------------------
(* fastapi_server/main.py: the /ai-search handler *)

\* str.strip() on the texts of the model
Strip(text) == IF text = " qb " THEN "qb" ELSE text

\* what the chat-completion call does: it raises, or returns a content
Raises(why) == [ok |-> FALSE, content |-> why]
Returns(content) == [ok |-> TRUE, content |-> content]
LLMOutcomes == {Raises("timeout"), Raises("malformed"), Returns(" qb "), Returns("")}

\* the value of the except branch of lines 124-126
OnRewriteFailure_Empty(query) == ""

OnRewriteFailure(query) == query

\* rewrite_query, lines 108-126
rewrite_query(query, outcome) ==
    IF openai_client = None THEN query
    ELSE IF outcome.ok THEN Strip(outcome.content)
    ELSE OnRewriteFailure(query)

\* the score faiss reports for a slot it could not fill
NoScore == 0 - (Scale * Scale) - 1

Score(index, vec, row) == InnerProduct(index.vecs[row + 1], vec)

\* the best of the rows in S: highest inner product, lowest row on a tie
Best(index, vec, S) ==
    CHOOSE r \in S : \A o \in S :
        \/ Score(index, vec, r) > Score(index, vec, o)
        \/ Score(index, vec, r) = Score(index, vec, o) /\ r <= o

RECURSIVE TopRows(_, _, _, _)
TopRows(index, vec, S, k) ==
    IF k = 0 THEN <<>>
    ELSE IF S = {} THEN <<[idx |-> -1, score |-> NoScore]>> \o TopRows(index, vec, S, k - 1)
    ELSE LET r == Best(index, vec, S)
         IN  <<[idx |-> r, score |-> Score(index, vec, r)]>>
                 \o TopRows(index, vec, S \ {r}, k - 1)

\* IndexFlatIP.search(vec, k), for k > 0 and a vector of the index's
\* dimension: k (row, score) pairs, best first, padded with row -1
IndexSearch(index, vec, k) ==
    TopRows(index, vec, 0..(Len(index.vecs) - 1), k)

\* the keys the join reads from a metadata record (lines 187-191)
DisplayFields == {"project_id", "center_id", "center_name", "title", "year"}

\* line 183 with the upper test off by one
OutOfRange_OffByOne(idx, size) == idx < 0 \/ idx > size

\* line 183
OutOfRange(idx, size) == idx < 0 \/ idx >= size

\* lines 186-194
Candidate(meta, score) ==
    [project_id |-> meta.project_id, center_id |-> meta.center_id,
     center_name |-> meta.center_name, title |-> meta.title, year |-> meta.year,
     score |-> score, evidence_snippets |-> <<score>>]

\* metadata[idx] has every key the join reads
Joinable(idx) ==
    /\ idx + 1 \in DOMAIN metadata
    /\ DisplayFields \subseteq DOMAIN metadata[idx + 1]

RECURSIVE JoinLoop(_, _)
\* lines 182-194 over the (row, score) pairs left; a missing key raises
\* KeyError out of the handler
JoinLoop(hits, candidates) ==
    IF hits = <<>> THEN [ok |-> TRUE, candidates |-> candidates]
    ELSE LET h == Head(hits)
         IN  IF OutOfRange(h.idx, Len(metadata))
             THEN JoinLoop(Tail(hits), candidates)
             ELSE IF ~Joinable(h.idx)
             THEN [ok |-> FALSE, candidates |-> candidates]
             ELSE JoinLoop(Tail(hits),
                           Append(candidates, Candidate(metadata[h.idx + 1], h.score)))

\* line 197 slicing from the wrong end: candidates[-top_k_results:]
Truncate_Tail(candidates, top_k_results) ==
    SubSeq(candidates, Max(Len(candidates) - top_k_results, 0) + 1, Len(candidates))

\* line 197
Truncate(candidates, top_k_results) == PySlice(candidates, top_k_results)

\* the stage reordering the candidates when the request asks for a rerank
RerankStage_Reorders(req, candidates) ==
    IF req.use_rerank
    THEN Truncate([n \in 1..Len(candidates) |-> candidates[Len(candidates) + 1 - n]],
                  req.top_k_results)
    ELSE Truncate(candidates, req.top_k_results)

\* lines 196-197, "4. Rerank": the candidates are cut to top_k_results;
\* req.use_rerank is not read and rerank_results is not called
RerankStage(req, candidates) == Truncate(candidates, req.top_k_results)

\* the request ends in an HTTP 500; embedded is the text that was encoded
Failure(req, outcome, embedded, error, calls) ==
    [status |-> "error", req |-> req, outcome |-> outcome, error |-> error,
     embedded |-> embedded, searched |-> NoVector, rewritten_query |-> None,
     timings |-> {}, results |-> <<>>, calls |-> calls]

\* line 161 without the request flag
RewriteStageRuns_IgnoresFlag(req) == openai_client # None

\* line 161: if req.use_rewrite and openai_client
RewriteStageRuns(req) == req.use_rewrite /\ openai_client # None

\* line 175 never raising
IndexLoaded_Unchecked(index) == TRUE

\* line 175: if not faiss_index: raise
IndexLoaded(index) == index # NoIndex

\* the query vector taken as the provider returned it
QueryVector_Raw(text) == Embedding(embed_model, text)

\* lines 169-170: embed_model.encode([q_search]), then faiss.normalize_L2(vec)
QueryVector(text) == normalize_L2(Embedding(embed_model, text))

\* the handler of lines 154-207 on request req, the chat-completion call
\* ending in outcome when it is made
Handle(req, outcome) ==
    LET rewrites  == RewriteStageRuns(req)
        q_search  == IF rewrites THEN rewrite_query(req.query, outcome) ELSE req.query
        rewritten == IF rewrites THEN q_search ELSE None
        t1        == IF rewrites THEN {"rewrite"} ELSE {}
        c1        == IF rewrites THEN <<"rewrite", "llm">> ELSE <<>>
        vec       == QueryVector(q_search)
        c2        == c1 \o <<"embed">>
        hits      == IndexSearch(faiss_index, vec, req.top_k_candidates)
        joined    == JoinLoop(hits, <<>>)
    IN  IF ~IndexLoaded(faiss_index)
        THEN Failure(req, outcome, q_search, "Index not loaded", c2)
        ELSE IF vec.d # faiss_index.d \/ req.top_k_candidates <= 0
        THEN Failure(req, outcome, q_search, "AssertionError", c2 \o <<"retrieve">>)
        ELSE IF ~joined.ok
        THEN [Failure(req, outcome, q_search, "KeyError",
                      c2 \o <<"retrieve", "join">>) EXCEPT !.searched = vec]
        ELSE [status |-> "ok", req |-> req, outcome |-> outcome, error |-> None,
              embedded |-> q_search, searched |-> vec,
              rewritten_query |-> rewritten,
              timings |-> t1 \cup {"embed", "retrieve", "total"},
              results |-> RerankStage(req, joined.candidates),
              calls |-> c2 \o <<"retrieve", "join", "truncate">>]

Queries == {"qa", "qb"}

\* the bodies pydantic accepts as a SearchRequest (lines 43-48)
Requests ==
    [query : Queries, top_k_candidates : 0..MaxK, top_k_results : (-1)..MaxK,
     use_rerank : BOOLEAN, use_rewrite : BOOLEAN]

\* the handler consuming the records it joined
LoadedAfterSearch_Consumed(index, meta) ==
    [index |-> index, meta |-> IF meta = <<>> THEN meta ELSE Tail(meta)]

\* what the handler leaves in faiss_index and metadata: it declares no
\* global and calls nothing that writes them (normalize_L2 works on vec)
LoadedAfterSearch(index, meta) == [index |-> index, meta |-> meta]

\* one /ai-search request, handled from receipt to response
search ==
    /\ started = "up"
    /\ resp = NoResp
    /\ ~inflight.waiting
    /\ \E req \in Requests :
         \E outcome \in IF RewriteStageRuns(req)
                        THEN LLMOutcomes ELSE {NotCalled} :
            resp' = Handle(req, outcome)
    /\ faiss_index' = LoadedAfterSearch(faiss_index, metadata).index
    /\ metadata' = LoadedAfterSearch(faiss_index, metadata).meta
    /\ UNCHANGED <<envVars, disk, buildVars, reranked, started, embed_model,
                   openai_client, warnings, inflight, waited>>

\* the response has been sent; the service waits for the next request
Respond ==
    /\ resp # NoResp
    /\ resp' = NoResp
    /\ waited' = 0
    /\ UNCHANGED <<envVars, disk, buildVars, reranked, started, embed_model, faiss_index,
                   metadata, openai_client, warnings, inflight>>

\* lines 154-162, 112: a request that takes the rewrite branch enters the
\* blocking chat-completion call; the handler holds the event loop, so no
\* other request is handled meanwhile
search_call ==
    /\ started = "up"
    /\ resp = NoResp
    /\ ~inflight.waiting
    /\ \E req \in Requests :
          /\ RewriteStageRuns(req)
          /\ inflight' = [waiting |-> TRUE, req |-> req]
    /\ waited' = 0
    /\ UNCHANGED <<envVars, disk, buildVars, reranked, started, embed_model, faiss_index,
                   metadata, openai_client, warnings, resp>>

\* time passes while the call has not returned; nothing in the handler or in
\* rewrite_query watches a clock
Tick ==
    /\ inflight.waiting
    /\ waited < MaxWait
    /\ waited' = waited + 1
    /\ UNCHANGED <<envVars, disk, buildVars, reranked, started, embed_model, faiss_index,
                   metadata, openai_client, warnings, resp, inflight>>

\* lines 112-126, 163-207: the call returns or raises, and the handler runs
\* to its response
search_return ==
    /\ inflight.waiting
    /\ \E outcome \in LLMOutcomes : resp' = Handle(inflight.req, outcome)
    /\ inflight' = NoCall
    /\ UNCHANGED <<envVars, disk, buildVars, reranked, started, embed_model, faiss_index,
                   metadata, openai_client, warnings, waited>>

----------------------------------------------------------------------------
(* The artifacts a deployment may find on disk at startup *)

CorpusRow(k) ==
    Project(<<"P1", "P2", "P3">>[k], <<"t1", "t2", "t3">>[k], "none")

\* the index build_index writes for the first n corpus records with model m;
\* the items in failed got the placeholder
IndexOf(m, n, failed) ==
    BuildIndex([k \in 1..n |-> IF k \in failed THEN ZeroPlaceholder
                               ELSE Embedding(m, CorpusRow(k).name)])

IndexFiles ==
    { IndexOf(m, 3, {}) : m \in BuildModels }
        \cup { IndexOf("openai/text-embedding-3-small", 2, {}),
               IndexOf("openai/text-embedding-3-small", 3, {2}) }

MetaLine(k) == Dumps(MetadataOf(Center("c1", <<>>), CorpusRow(k)))
\* a parsable line without the display fields
BareLine(k) == Dumps([project_id |-> CorpusRow(k).registration_number])

MetaFiles ==
    { <<MetaLine(1), MetaLine(2), MetaLine(3)>>,
      <<MetaLine(1), MetaLine(2)>>,
      <<MetaLine(1), Garbage, MetaLine(3)>>,
      <<MetaLine(1), BareLine(2), MetaLine(3)>>,
      <<BareLine(1)>>,
      <<>> }

\* a deployment: the environment, and the artifacts in one of the three
\* directories startup looks in
Init ==
    /\ OPENROUTER_API_KEY \in BOOLEAN
    /\ EMBEDDINGS_MODEL \in ServeModels
    /\ EMBEDDING_MODEL = "openai/text-embedding-3-small"
    /\ centers = <<>>
    /\ \E index \in {File(f) : f \in IndexFiles} \cup {NoIndexFile},
          lines \in {File(f) : f \in MetaFiles} \cup {NoLinesFile},
          dir \in 1..3 :
         disk = [EmptyDisk EXCEPT ![index_paths[dir]] = index,
                                  ![meta_paths[dir]] = lines]
    /\ BuildIdle
    /\ ServeIdle

Next ==
    \/ startup_event
    \/ search
    \/ Respond

Spec == Init /\ [][Next]_vars

\* lines 128-145: both branches return candidates[:top_k]
rerank_results(query, candidates, top_k) ==
    IF openai_client = None
    THEN PySlice(candidates, top_k)
    ELSE PySlice(candidates, top_k)

\* the candidate dicts the join loop builds, best first
RerankCandidates ==
    { Candidate(MetadataOf(Center("c1", <<>>), CorpusRow(k)), Scale * (4 - k)) :
        k \in 1..3 }

\* a call of rerank_results; the function reads only openai_client
rerank_call ==
    /\ reranked = NoRerank
    /\ \E query \in Queries, top_k \in (-1)..MaxK,
          candidates \in SeqsUpTo(RerankCandidates, MaxCandidates) :
         reranked' = [called |-> TRUE, query |-> query,
                      candidates |-> candidates, top_k |-> top_k,
                      result |-> rerank_results(query, candidates, top_k)]
    /\ UNCHANGED <<envVars, disk, buildVars, started, embed_model, faiss_index,
                   metadata, openai_client, warnings, resp, inflight, waited>>

\* the caller has taken the value
rerank_return ==
    /\ reranked # NoRerank
    /\ reranked' = NoRerank
    /\ UNCHANGED <<envVars, disk, buildVars, started, embed_model, faiss_index,
                   metadata, openai_client, warnings, resp, inflight, waited>>

\* the service process with rerank_results called from outside the handler
NextRerank ==
    \/ startup_event
    \/ rerank_call
    \/ rerank_return

SpecRerank == Init /\ [][NextRerank]_vars

\* the offline pipeline run in the directory the service is started in, and
\* the service answering requests from what it found there
NextDeploy ==
    \/ NextBuild
    \/ startup_event
    \/ search
    \/ Respond

SpecDeploy == InitBuild /\ [][NextDeploy]_vars

\* the service with the handler split at its external call
NextDeadline ==
    \/ startup_event
    \/ search
    \/ search_call
    \/ Tick
    \/ search_return
    \/ Respond

SpecDeadline == Init /\ [][NextDeadline]_vars

----------------------------------------------------------------------------
(* A corpus rebuild next to a service that may start at any moment *)

\* the corpus of the previous snapshot: none of its records or vectors
\* occurs in a snapshot made from CenterFiles
OldCorpus == <<Center("c0", <<Project("P0", "qa", "none")>>)>>

OldLines == FilesLoop(OldCorpus, NoLines)

OldIndex == BuildIndex(<<Embedding(EMBEDDING_MODEL, "qa")>>)

\* the working directory holds the artifacts of the previous snapshot and
\* the centre files of the new one
InitRebuild ==
    /\ OPENROUTER_API_KEY \in BOOLEAN
    /\ EMBEDDINGS_MODEL \in ServeModels
    /\ EMBEDDING_MODEL \in BuildModels
    /\ centers \in SeqsUpTo(CenterFiles, MaxFiles)
    /\ disk = [EmptyDisk EXCEPT ![OUTPUT_METADATA]    = File(OldLines.meta),
                                ![OUTPUT_SEARCH_TEXT] = File(OldLines.text),
                                ![OUTPUT_INDEX]       = File(OldIndex)]
    /\ BuildIdle
    /\ ServeIdle

\* the two scripts run in order; the service process starts independently
NextRebuild ==
    \/ NextBuild
    \/ startup_event

SpecRebuild == InitRebuild /\ [][NextRebuild]_vars

----------------------------------------------------------------------------
(* Claims about the offline pipeline, checked under SpecBuild *)

\* the vector the builder stores for a search-text line: the normalised
\* embedding of its text, or the placeholder of a failed item
RowVectors(line) ==
    { normalize_L2(Embedding(EMBEDDING_MODEL, Loads(line).search_text)),
      normalize_L2(ZeroPlaceholder) }

\* C1 (as claimed): in an artifact pair freshly produced by prepare_data
\* followed by build_index, every row r of the index has a metadata line r,
\* and the project_id on that line is the project_id of the search-text
\* record whose vector is stored at row r.
C1_RowAlignment ==
    phase = "built" =>
        LET meta == disk[OUTPUT_METADATA].data
            st   == disk[OUTPUT_SEARCH_TEXT].data
            rows == disk[OUTPUT_INDEX].data.vecs
        IN  \A r \in 1..Len(rows) :
              /\ r \in DOMAIN meta
              /\ r \in DOMAIN st
              /\ rows[r] \in RowVectors(st[r])
              /\ ids[r] = Loads(st[r]).project_id
              /\ Loads(meta[r]).project_id = Loads(st[r]).project_id

\* the number of records the batch loop has dealt with so far
Processed == IF j > 0 THEN i + j - 1 ELSE Min(i, Len(texts))

\* C2: the batch loop never drops a row: at every point the embedding list
\* holds exactly one vector for each record dealt with so far, in file order
\* (a failed batch has added nothing when its fallback starts, each fallback
\* item adds exactly one vector, its embedding or the zero placeholder), and
\* when the loop is over the list has one vector per input record.
C2_NoRowDropped ==
    phase \in {"encoding", "built", "crashed"} =>
        /\ Len(all_embeddings) = Processed
        /\ \A r \in 1..Len(all_embeddings) :
             all_embeddings[r] \in {Embedding(EMBEDDING_MODEL, texts[r]), ZeroPlaceholder}
        /\ (j = 0 /\ i >= Len(texts) => Len(all_embeddings) = Len(texts))

\* the loop finished over three or more records with a failed item followed
\* by a successful one
C2_Witness ==
    /\ phase \in {"built", "crashed"}
    /\ Len(texts) >= 3
    /\ Len(all_embeddings) = Len(texts)
    /\ \E r \in 1..(Len(texts) - 1) :
         /\ all_embeddings[r] = ZeroPlaceholder
         /\ all_embeddings[r + 1] = Embedding(EMBEDDING_MODEL, texts[r + 1])

----------------------------------------------------------------------------
(* Claims about the serving pipeline, checked under Spec *)

Answered == resp.status = "ok"
Handled  == resp.status # "none"

\* the (row, score) pairs the index returned for the handled request
Hits ==
    IndexSearch(faiss_index,
                normalize_L2(Embedding(embed_model, resp.embedded)),
                resp.req.top_k_candidates)

\* the handled request got as far as a search of the loaded index
Retrieved ==
    /\ Handled
    /\ faiss_index # NoIndex
    /\ ModelDim(embed_model) = faiss_index.d
    /\ resp.req.top_k_candidates > 0

InRange(h) == 0 <= h.idx /\ h.idx < Len(metadata)
\* the returned pairs whose row has a metadata record, in the order returned
InRangeHits == SelectSeq(Hits, InRange)

Malformed(h) == ~(DisplayFields \subseteq DOMAIN metadata[h.idx + 1])

\* C3 (as claimed): an answered request has at most top_k_results results
\* (none for a count of zero or less), and no more results than candidates
\* were retrieved and joined.
C3_AtMostTopK ==
    Answered =>
        /\ Len(resp.results) <= Max(resp.req.top_k_results, 0)
        /\ Len(resp.results) <= Len(InRangeHits)

\* top_k_candidates >= top_k_results > 0
ValidRequest(req) ==
    /\ req.top_k_candidates >= req.top_k_results
    /\ req.top_k_results > 0

\* C4 (as claimed): a request that does not satisfy
\* top_k_candidates >= top_k_results > 0 fails with InvalidRequest before
\* any rewrite, embedding or index search, and returns no results.
C4_InvalidRequestRejected ==
    (Handled /\ ~ValidRequest(resp.req)) =>
        /\ resp.status = "error"
        /\ resp.error = "InvalidRequest"
        /\ resp.calls = <<>>
        /\ resp.results = <<>>

NonIncreasing(results) ==
    \A n \in 1..(Len(results) - 1) : results[n].score >= results[n + 1].score

ProjectIds(results) == [n \in 1..Len(results) |-> results[n].project_id]

C6_BoundsSafety ==
    Retrieved =>
        /\ \A n \in 1..Len(resp.results) :
             \E m \in 1..Len(Hits) :
                /\ InRange(Hits[m])
                /\ resp.results[n] = Candidate(metadata[Hits[m].idx + 1], Hits[m].score)
        /\ ( (\A n \in 1..Len(InRangeHits) : ~Malformed(InRangeHits[n])) =>
               /\ Answered
               /\ resp.results =
                    PySlice([n \in 1..Len(InRangeHits) |->
                                Candidate(metadata[InRangeHits[n].idx + 1],
                                          InRangeHits[n].score)],
                            resp.req.top_k_results) )

\* a request was answered with results although the index returned both a
\* negative row and a row past the end of the metadata
C6_Witness ==
    /\ Answered
    /\ Len(resp.results) >= 2
    /\ \E m \in 1..Len(Hits) : Hits[m].idx < 0
    /\ \E m \in 1..Len(Hits) : Hits[m].idx >= Len(metadata)

\* the candidates of the returned rows that have a well-formed record
WellFormedHits == SelectSeq(InRangeHits, LAMBDA h : ~Malformed(h))

\* C7 (as claimed): a retrieved row whose metadata record is malformed is
\* skipped; the request is answered with the remaining candidates.
C7_MalformedSkipped ==
    Retrieved =>
        /\ Answered
        /\ resp.results =
             PySlice([n \in 1..Len(WellFormedHits) |->
                         Candidate(metadata[WellFormedHits[n].idx + 1],
                                   WellFormedHits[n].score)],
                     resp.req.top_k_results)

\* the lines of the metadata file startup reads
StartupLines ==
    IF FirstExisting(meta_paths) = 0 THEN <<>>
    ELSE disk[meta_paths[FirstExisting(meta_paths)]].data

\* C8 (as claimed): the load of the metadata file completes whatever its
\* lines, and every parsable line keeps its line position as row index.
C8_LoadToleratesBadLine ==
    started # "no" =>
        /\ started = "up"
        /\ Len(metadata) = Len(StartupLines)
        /\ \A k \in 1..Len(StartupLines) :
             Parsable(StartupLines[k]) => metadata[k] = Loads(StartupLines[k])

\* the rewriter produced a rewritten query for the handled request
RewriteProduced ==
    /\ resp.req.use_rewrite
    /\ openai_client # None
    /\ resp.outcome.ok

\* C9 (as claimed): an answered request carries a non-null rewritten_query
\* exactly when the rewriter produced one; with the rewriter disabled,
\* unconfigured or failing it is null.
C9_RewrittenNullUnlessProduced ==
    Answered => (resp.rewritten_query # None <=> RewriteProduced)

\* C10: a handled request whose rewrite is disabled, unconfigured or failed
\* ends exactly as the same request sent with use_rewrite = FALSE: the same
\* status and the same results in the same order.
C10_DegradedRewriteSameResults ==
    (Handled /\ ~RewriteProduced) =>
        LET twin == Handle([resp.req EXCEPT !.use_rewrite = FALSE], NotCalled)
        IN  /\ resp.status = twin.status
            /\ resp.error = twin.error
            /\ resp.results = twin.results

\* the rewriter was called, failed, and the request was answered with results
C10_Witness ==
    /\ Answered
    /\ resp.req.use_rewrite /\ openai_client # None /\ ~resp.outcome.ok
    /\ Len(resp.results) >= 2

\* the rewriter was called for the handled request and failed: the call
\* raised (timeout, provider error, malformed response) or the reply was empty
RewriteFailed ==
    /\ resp.req.use_rewrite
    /\ openai_client # None
    /\ (~resp.outcome.ok \/ Strip(resp.outcome.content) = "")

\* C11 (as claimed): a failed rewrite (timeout, provider error, malformed
\* or empty response) does not abort the request: the text that is embedded
\* and searched is the original query.
C11_RewriteFailureKeepsQuery ==
    (Handled /\ RewriteFailed) =>
        /\ resp.embedded = resp.req.query
        /\ \E n \in 1..Len(resp.calls) : resp.calls[n] = "embed"

\* C12: a request handled while no index is loaded fails with the error
\* "Index not loaded" and no results, without a search having run; that
\* error is reported for no other failure.
C12_IndexUnavailable ==
    Handled =>
        /\ (faiss_index = NoIndex =>
               /\ resp.status = "error"
               /\ resp.error = "Index not loaded"
               /\ resp.results = <<>>
               /\ \A n \in 1..Len(resp.calls) : resp.calls[n] # "retrieve")
        /\ (resp.error = "Index not loaded" => faiss_index = NoIndex)

\* a request was handled by a service that found no index at startup
C12_Witness ==
    /\ Handled
    /\ faiss_index = NoIndex
    /\ "FAISS index not found" \in warnings
    /\ resp.error = "Index not loaded"

\* C14 (as claimed): when the loaded metadata and the loaded index differ
\* in size, startup has logged a warning about the mismatch.
C14_SizeMismatchWarned ==
    (started = "up" /\ faiss_index # NoIndex
        /\ Len(metadata) # Len(faiss_index.vecs) /\ metadata # <<>>)
    => \E w \in warnings : w \notin {"FAISS index not found", "Metadata not found",
                                      "OPENROUTER_API_KEY missing"}

\* the stages that ran for the handled request
StagesRun == {resp.calls[n] : n \in 1..Len(resp.calls)} \ {"llm"}

\* C15 (as claimed): the timings of an answered request have an entry for
\* each stage that ran, none for a stage that did not, and the total.
C15_TimingsMatchStages ==
    Answered => resp.timings = StagesRun \cup {"total"}

\* C17: with use_rewrite false or no LLM client configured, the handled
\* request made no call to the rewrite provider and the text embedded is
\* the original query.
C17_NoRewriteNoCall ==
    (Handled /\ (~resp.req.use_rewrite \/ openai_client = None)) =>
        /\ \A n \in 1..Len(resp.calls) : resp.calls[n] \notin {"llm", "rewrite"}
        /\ resp.outcome = NotCalled
        /\ resp.embedded = resp.req.query

\* a request with use_rewrite false was answered by a service whose LLM
\* client is configured
C17_Witness ==
    /\ Answered
    /\ ~resp.req.use_rewrite
    /\ openai_client # None
    /\ Len(resp.results) >= 1

\* C20: the loaded index and the loaded metadata change only in the step
\* that runs startup_event; serving a request leaves both as they were, so
\* every request observes the same index and the same metadata.
C20_ReadOnlyAfterLoad ==
    [][(faiss_index' # faiss_index \/ metadata' # metadata)
          => (started = "no" /\ started' # "no")]_vars

\* a request was answered from a loaded index and loaded metadata
C20_Witness ==
    /\ Answered
    /\ faiss_index # NoIndex
    /\ Len(metadata) >= 2
    /\ Len(resp.results) >= 2

\* the rows of the index file the builder wrote
BuiltRows == disk[OUTPUT_INDEX].data.vecs

UnitLength(v) == InnerProduct(v, v) = Scale * Scale

\* C19 as stated: every vector the builder inserts into the index has unit
\* length after normalisation, its inner product with itself being 1.
C19_EveryRowUnit ==
    (phase = "built" /\ disk[OUTPUT_INDEX].present)
        => \A k \in 1..Len(BuiltRows) : UnitLength(BuiltRows[k])

\* C19 amended: every row for which the provider returned an embedding has
\* unit length in the index; the row of an item whose per-item call failed is
\* the zero placeholder, which normalisation leaves at length 0.
C19_ReturnedRowsUnit ==
    (phase = "built" /\ disk[OUTPUT_INDEX].present)
        => /\ Len(BuiltRows) = Len(all_embeddings)
           /\ \A k \in 1..Len(BuiltRows) :
                 IF all_embeddings[k] = ZeroPlaceholder
                 THEN InnerProduct(BuiltRows[k], BuiltRows[k]) = 0
                 ELSE UnitLength(BuiltRows[k])

\* an index was built that holds a placeholder row and a row whose raw
\* embedding was not of unit length
C19_Witness ==
    /\ phase = "built" /\ disk[OUTPUT_INDEX].present
    /\ \E k \in 1..Len(all_embeddings) : all_embeddings[k] = ZeroPlaceholder
    /\ \E k \in 1..Len(all_embeddings) :
          /\ all_embeddings[k] # ZeroPlaceholder
          /\ ~UnitLength(all_embeddings[k])
          /\ UnitLength(BuiltRows[k])

\* C13: whenever the service starts, also in the middle of a rebuild, the
\* index and the metadata it loads are of one corpus snapshot: both of the
\* previous snapshot or both of the new one.
C13_SameSnapshot ==
    started = "up"
        => ((metadata = LoadMetadata(OldLines.meta)) <=> (faiss_index = OldIndex))

\* C16: whatever per-request deadline is configured, once it has elapsed
\* the request is no longer waiting for its external call, and it is not
\* answered with results: it has failed with a timeout error.
C16_DeadlineEnforced ==
    \A deadline \in 1..MaxWait :
        waited >= deadline
            => /\ ~inflight.waiting
               /\ Handled => (resp.status = "error" /\ resp.error = "timeout")

\* C18: rerank_results returns the first top_k candidates in input order,
\* with or without a client: a prefix of its input, of no more than top_k
\* candidates (none for a top_k below 1) and no more than it was given.
C18_RerankTruncates ==
    reranked.called
        => LET n == Min(Max(reranked.top_k, 0), Len(reranked.candidates))
           IN  reranked.result = SubSeq(reranked.candidates, 1, n)

\* the stages of the handler in the order of the pipeline
StageOrder == <<"rewrite", "embed", "retrieve", "join", "truncate">>

\* the stages the handled request went through, in the order they ran
StagesInOrder == SelectSeq(resp.calls, LAMBDA c : c # "llm")

IsPrefix(s, t) == Len(s) <= Len(t) /\ s = SubSeq(t, 1, Len(s))

\* C21: the stages of a handled request run in the order rewrite, embed,
\* retrieve, join, truncate, none before the one ahead of it; the text
\* embedded is what the rewriter returned when the rewrite stage ran and the
\* original query otherwise; the vector searched is the normalised embedding
\* of that text.
C21_StageOrder ==
    Handled =>
        /\ IF RewriteStageRuns(resp.req)
           THEN /\ IsPrefix(StagesInOrder, StageOrder)
                /\ resp.embedded = rewrite_query(resp.req.query, resp.outcome)
           ELSE /\ IsPrefix(StagesInOrder, Tail(StageOrder))
                /\ resp.embedded = resp.req.query
        /\ (\E n \in 1..Len(resp.calls) : resp.calls[n] = "join")
              => resp.searched = normalize_L2(Embedding(embed_model, resp.embedded))

\* a request was answered through all five stages, its rewritten text
\* differing from the query and its raw embedding not of unit length
C21_Witness ==
    /\ Answered
    /\ StagesInOrder = StageOrder
    /\ resp.embedded # resp.req.query
    /\ resp.searched # Embedding(embed_model, resp.embedded)
    /\ Len(resp.results) >= 2

\* the index the service loaded is the one build_index wrote in this run
ServesBuiltIndex ==
    /\ phase = "built"
    /\ started = "up"
    /\ faiss_index = disk[OUTPUT_INDEX].data

\* C22 (as claimed): the query vector the handler passes to the search of
\* an index that build_index produced has the dimension of that index, for
\* the models the two sides are configured with, their defaults included.
C22_QueryDimMatchesIndex ==
    (ServesBuiltIndex /\ Handled)
        => QueryVector(resp.embedded).d = faiss_index.d

\* C23 (as claimed): every vector build_index accumulates, the zero
\* placeholders included, has the dimension of the configured model's
\* embeddings, so the accumulated rows form one rectangular array.
C23_RowsOfModelDim ==
    /\ \A k \in 1..Len(all_embeddings) :
          all_embeddings[k].d = ModelDim(EMBEDDING_MODEL)
    /\ Rectangular(all_embeddings)

\* C24 (as claimed): after prepare_data has processed the centre files,
\* whatever projects it skipped and whatever files raised partway, its two
\* outputs have the same number of lines and line k of each carries the same
\* project_id.
C24_OutputsAligned ==
    phase = "prepared" =>
        LET meta == disk[OUTPUT_METADATA].data
            text == disk[OUTPUT_SEARCH_TEXT].data
        IN  /\ Len(meta) = Len(text)
            /\ \A k \in 1..Len(meta) :
                  Loads(meta[k]).project_id = Loads(text[k]).project_id

\* the handled request sent again with only use_rerank flipped, against the
\* same loaded state and with the same outcome of the rewriter call
RerankTwin ==
    Handle([resp.req EXCEPT !.use_rerank = ~resp.req.use_rerank], resp.outcome)

\* C25: the response does not depend on use_rerank: the request with only
\* that flag flipped ends with the same status, the same error, the same
\* rewritten query and the same results in the same order, so asking for a
\* rerank that is skipped never turns an answer into an error.
C25_RerankFlagIgnored ==
    Handled =>
        /\ RerankTwin.status = resp.status
        /\ RerankTwin.error = resp.error
        /\ RerankTwin.rewritten_query = resp.rewritten_query
        /\ RerankTwin.results = resp.results

\* a request asking for a rerank was answered with several results by a
\* service that has no LLM client to rerank with
C25_Witness ==
    /\ Answered
    /\ resp.req.use_rerank
    /\ openai_client = None
    /\ Len(resp.results) >= 2
    /\ resp.results[1] # resp.results[2]

====
